---- MODULE Spec2Model ----
(***************************************************************************)
(* A model of the render-state store built by createMockStore              *)
(* (src/src/test-renderer/createMockStore.ts): the frame subscriber        *)
(* registry (internal.subscribe and the unsubscribe handles it returns),   *)
(* the performance governor (performance.regress and its recovery timer),  *)
(* the store's mutation entry points (setSize, setCamera, setPixelRatio)   *)
(* and the standing resize / pixel-ratio subscription.                     *)
(***************************************************************************)
EXTENDS Integers, Sequences, FiniteSets, TLC

(***************************************************************************)
(* Bounds of the model.                                                    *)
(***************************************************************************)
\* how many internal.subscribe calls one behaviour makes
MaxSubscribe == 3
\* how many unsubscribe-handle invocations one behaviour makes
MaxUnsubscribe == 3
\* how many performance.regress calls one behaviour makes
MaxRegress == 4
\* how many setSize calls one behaviour makes, the constructor's included
MaxSetSize == 2
\* how many regress, subscribe and unsubscribe calls (each) one behaviour of
\* the whole store makes
MaxMixed == 1

(***************************************************************************)
(* JavaScript numbers.  A number is a record [n, d]: the rational n / d in *)
(* lowest terms when d > 0, and the IEEE special values when d = 0:        *)
(* [1, 0] is Infinity, [-1, 0] is -Infinity and [0, 0] is NaN.  Rounding   *)
(* is not modelled (arithmetic is exact), and -0 is not told from 0.       *)
(***************************************************************************)
Abs(i) == IF i < 0 THEN -i ELSE i

Sign(i) == IF i < 0 THEN -1 ELSE IF i > 0 THEN 1 ELSE 0

RECURSIVE GCD(_, _)
GCD(a, b) == IF b = 0 THEN a ELSE GCD(b, a % b)

\* the number n / d for integers n and d >= 0
Norm(n, d) ==
  IF d = 0 THEN [n |-> Sign(n), d |-> 0]
  ELSE LET g == GCD(Abs(n), d) IN [n |-> n \div g, d |-> d \div g]

Num(i) == [n |-> i, d |-> 1]

Rat(n, d) == Norm(n, d)

NaN == [n |-> 0, d |-> 0]

Infinity == [n |-> 1, d |-> 0]

IsNaN(a) == a.n = 0 /\ a.d = 0

IsFinite(a) == a.d > 0

\* a / b
Div(a, b) ==
  IF b.n < 0 THEN Norm((0 - a.n) * b.d, a.d * (0 - b.n))
  ELSE Norm(a.n * b.d, a.d * b.n)

\* a * b
Mul(a, b) == Norm(a.n * b.n, a.d * b.d)

\* a <= b (false when either is NaN)
Leq(a, b) ==
  /\ ~IsNaN(a)
  /\ ~IsNaN(b)
  /\ IF a.d = 0 /\ b.d = 0 THEN a.n <= b.n
     ELSE IF a.d = 0 THEN a.n < 0
     ELSE IF b.d = 0 THEN b.n > 0
     ELSE a.n * b.d <= b.n * a.d

\* Math.min(a, b)
MathMin(a, b) == IF IsNaN(a) \/ IsNaN(b) THEN NaN ELSE IF Leq(a, b) THEN a ELSE b

\* Math.max(a, b)
MathMax(a, b) == IF IsNaN(a) \/ IsNaN(b) THEN NaN ELSE IF Leq(a, b) THEN b ELSE a

(***************************************************************************)
(* The state.                                                              *)
(***************************************************************************)
VARIABLES
  \* construction-time closure of createMockStore
  ctorCamera,          \* const camera (line 86): the camera the store was built with
  updateCamera,        \* the updateCamera flag held in the store
  devicePixelRatio,    \* window.devicePixelRatio of the host
  \* the zustand state
  camera,              \* state.camera: a reference into cams
  size,                \* state.size
  sizeRef,             \* identity of the object held in state.size
  viewport,            \* state.viewport
  performance,         \* state.performance
  \* state.internal, an object mutated in place
  manual,              \* internal.manual
  subscribers,         \* internal.subscribers: a reference into arrays
  arrays,              \* the array objects of the heap, by identity
  \* the host
  cams,                \* the camera objects of the heap, by identity
  timers,              \* ids of the timeouts scheduled and not yet fired or cleared
  nextTimer,           \* the id the next setTimeout returns
  performanceTimeout,  \* let performanceTimeout (line 134); 0 is undefined
  currentSlice,        \* the slice last seen by the resize subscription
  \* a render tick of the external loop
  tickPc,              \* "idle", "running" (inside a callback) or "done"
  tickArr,             \* the array the tick read at its start ({} when none)
  tickIdx,             \* position of the entry whose callback is running
  \* history
  handles,             \* the unsubscribe handles returned so far
  nSubscribe,          \* internal.subscribe calls so far
  nUnsubscribe,        \* unsubscribe-handle invocations so far
  tickStart,           \* the entries registered when the tick started
  tickInvoked,         \* the entries the tick has invoked, in order
  perfLog,             \* regress calls and recoveries, in order
  reactorSaw,          \* the state the resize listener read when it last ran
  pixelRatioArg,       \* the argument of the latest setPixelRatio (at first, the option)
  lastOp               \* the operation that produced the current state

cfgVars == <<ctorCamera, updateCamera, devicePixelRatio>>

storeVars == <<camera, size, sizeRef, viewport, cams, currentSlice, reactorSaw, pixelRatioArg>>

perfVars == <<performance, performanceTimeout, timers, nextTimer, perfLog>>

regVars == <<manual, subscribers, arrays, handles, nSubscribe, nUnsubscribe>>

tickVars == <<tickPc, tickArr, tickIdx, tickStart, tickInvoked>>

vars == <<cfgVars, storeVars, perfVars, regVars, tickVars, lastOp>>

(***************************************************************************)
(* Cameras.  A camera object carries what the store reads (its kind, zoom, *)
(* vertical field of view in degrees, distance of its world position from  *)
(* the default target, the origin) and the projection fields the resize    *)
(* subscription writes.  The heap holds the two cameras createMockStore    *)
(* can build and two built by the caller.                                  *)
(***************************************************************************)
CameraIds == {"defaultPerspective", "defaultOrthographic", "userPerspective", "userOrthographic"}

UserCameras == {"userPerspective", "userOrthographic"}

\* new THREE.PerspectiveCamera(75, 0, 0.1, 1000), position.z = 5
DefaultPerspective ==
  [orthographic |-> FALSE, zoom |-> Num(1), fov |-> 75, distance |-> Num(5),
   aspect |-> Num(0), left |-> Num(0), right |-> Num(0), top |-> Num(0), bottom |-> Num(0)]

\* new THREE.OrthographicCamera(0, 0, 0, 0, 0.1, 1000), position.z = 5, zoom = 100
DefaultOrthographic ==
  [orthographic |-> TRUE, zoom |-> Num(100), fov |-> 0, distance |-> Num(5),
   aspect |-> Num(0), left |-> Num(0), right |-> Num(0), top |-> Num(0), bottom |-> Num(0)]

\* a caller's perspective camera: fov 90, at distance 1 from the origin, aspect 1
UserPerspective ==
  [orthographic |-> FALSE, zoom |-> Num(1), fov |-> 90, distance |-> Num(1),
   aspect |-> Num(1), left |-> Num(0), right |-> Num(0), top |-> Num(0), bottom |-> Num(0)]

\* a caller's orthographic camera: zoom 2, frustum (-1, 1, 1, -1), at distance 10
UserOrthographic ==
  [orthographic |-> TRUE, zoom |-> Num(2), fov |-> 0, distance |-> Num(10),
   aspect |-> Num(0), left |-> Num(-1), right |-> Num(1), top |-> Num(1), bottom |-> Num(-1)]

InitialCameras ==
  [c \in CameraIds |->
     CASE c = "defaultPerspective" -> DefaultPerspective
       [] c = "defaultOrthographic" -> DefaultOrthographic
       [] c = "userPerspective" -> UserPerspective
       [] c = "userOrthographic" -> UserOrthographic]

\* isOrthographicCamera(camera)
isOrthographicCamera(cam) == cam.orthographic

\* Math.tan(((fov * Math.PI) / 180) / 2), exact for 90 degrees and rounded to
\* three decimals for the default 75 degrees
TanHalfFov(fov) == IF fov = 90 THEN Num(1) ELSE Rat(767, 1000)

(***************************************************************************)
(* getCurrentViewport(camera, target, size) for the default target.        *)
(***************************************************************************)
getCurrentViewport(cam, sz) ==
  LET width == sz.width
      height == sz.height
      aspect == Div(width, height)
      distance == cam.distance
  IN IF isOrthographicCamera(cam)
     THEN [width |-> Div(width, cam.zoom), height |-> Div(height, cam.zoom),
           factor |-> Num(1), distance |-> distance, aspect |-> aspect]
     ELSE LET h == Mul(Mul(Num(2), TanHalfFov(cam.fov)), distance)
              w == Mul(h, Div(width, height))
          IN [width |-> w, height |-> h, factor |-> Div(width, w),
              distance |-> distance, aspect |-> aspect]

\* a merge that puts the pixel ratio back to the initial one
MergeViewportReset(vp, g) ==
  [vp EXCEPT !.width = g.width, !.height = g.height, !.factor = g.factor,
             !.distance = g.distance, !.aspect = g.aspect,
             !.pixelRatio = vp.initialPixelRatio]

\* { ...state.viewport, ...getCurrentViewport(camera, defaultTarget, size) }
MergeViewport(vp, g) ==
  [vp EXCEPT !.width = g.width, !.height = g.height, !.factor = g.factor,
             !.distance = g.distance, !.aspect = g.aspect]

(***************************************************************************)
(* The pixel ratio: a scalar [isArray |-> FALSE, v |-> <<x>>] or a pair    *)
(* [isArray |-> TRUE, v |-> <<a, b>>].                                     *)
(***************************************************************************)
Scalar(x) == [isArray |-> FALSE, v |-> <<x>>]

Pair(a, b) == [isArray |-> TRUE, v |-> <<a, b>>]

\* a clamp with Math.min and Math.max exchanged
setPixelRatioSwapped(pixelRatio, dpr) ==
  IF pixelRatio.isArray
  THEN MathMin(MathMax(pixelRatio.v[1], dpr), pixelRatio.v[2])
  ELSE pixelRatio.v[1]

\* function setPixelRatio(pixelRatio)
setPixelRatio(pixelRatio, dpr) ==
  IF pixelRatio.isArray
  THEN MathMax(MathMin(pixelRatio.v[1], dpr), pixelRatio.v[2])
  ELSE pixelRatio.v[1]

(***************************************************************************)
(* The standing subscription of lines 236-257.  Its selector yields        *)
(* [state.viewport.pixelRatio, state.size]; zustand's shallow compares the *)
(* two elements with Object.is, so the size is compared by identity.       *)
(***************************************************************************)
Selector(vp, sref) == [pixelRatio |-> vp.pixelRatio, sizeRef |-> sref]

\* an equality that looks at the pixel ratio only
shallowPixelRatioOnly(a, b) == a.pixelRatio = b.pixelRatio

shallow(a, b) == a.pixelRatio = b.pixelRatio /\ a.sizeRef = b.sizeRef

\* a listener that does not look at updateCamera
ReactorUngated(cs, c, sz, upd) ==
  IF isOrthographicCamera(cs[c])
  THEN [cs EXCEPT ![c].left = Div(sz.width, Num(-2)),
                  ![c].right = Div(sz.width, Num(2)),
                  ![c].top = Div(sz.height, Num(2)),
                  ![c].bottom = Div(sz.height, Num(-2))]
  ELSE [cs EXCEPT ![c].aspect = Div(sz.width, sz.height)]

\* the listener's body: the camera objects after it ran
Reactor(cs, c, sz, upd) ==
  IF upd
  THEN IF isOrthographicCamera(cs[c])
       THEN [cs EXCEPT ![c].left = Div(sz.width, Num(-2)),
                       ![c].right = Div(sz.width, Num(2)),
                       ![c].top = Div(sz.height, Num(2)),
                       ![c].bottom = Div(sz.height, Num(-2))]
       ELSE [cs EXCEPT ![c].aspect = Div(sz.width, sz.height)]
  ELSE cs

\* a subscription without its equality check: the listener runs on every set
PublishAlways(slice, cs, upd, c, sz, sref, vp) ==
  [slice |-> Selector(vp, sref), cams |-> Reactor(cs, c, sz, upd), reactor |-> TRUE,
   saw |-> [size |-> sz, sizeRef |-> sref, viewport |-> vp]]

\* zustand's setState calls every listener once the state is replaced; the
\* subscription runs its listener when the selected slice changed.  Yields
\* the slice it keeps, the camera objects, whether the listener ran, and the
\* state getState() hands a listener during this call.
Publish(slice, cs, upd, c, sz, sref, vp) ==
  LET next == Selector(vp, sref)
      saw == [size |-> sz, sizeRef |-> sref, viewport |-> vp]
  IN IF ~shallow(slice, next)
     THEN [slice |-> next, cams |-> Reactor(cs, c, sz, upd), reactor |-> TRUE, saw |-> saw]
     ELSE [slice |-> slice, cams |-> cs, reactor |-> FALSE, saw |-> saw]

(***************************************************************************)
(* The frame subscriber registry.  An entry is { ref, priority }; seq, the *)
(* number of the subscribe call that pushed it, is kept beside it as       *)
(* history and is read by no operation.  internal.subscribers holds a      *)
(* reference to an array object: push and sort change that object in       *)
(* place, filter builds a new one.                                         *)
(***************************************************************************)
ArrayIds == {0, 1, 2}

Refs == {"r1", "r2"}

Priorities == {-1, 0, 1, 3, 5}

\* a sort that is not stable: e goes before the entries of its own priority
RECURSIVE InsertBeforeEqual(_, _)
InsertBeforeEqual(s, e) ==
  IF s = <<>> THEN <<e>>
  ELSE IF s[Len(s)].priority - e.priority >= 0
       THEN Append(InsertBeforeEqual(SubSeq(s, 1, Len(s) - 1), e), s[Len(s)])
       ELSE Append(s, e)

\* s with e put behind every entry the comparator does not order after it
RECURSIVE InsertByPriority(_, _)
InsertByPriority(s, e) ==
  IF s = <<>> THEN <<e>>
  ELSE IF s[Len(s)].priority - e.priority > 0
       THEN Append(InsertByPriority(SubSeq(s, 1, Len(s) - 1), e), s[Len(s)])
       ELSE Append(s, e)

\* subscribers.sort((a, b) => a.priority - b.priority): Array.prototype.sort
\* is stable (ECMAScript 2019)
RECURSIVE SortByPriority(_)
SortByPriority(s) ==
  IF s = <<>> THEN <<>>
  ELSE InsertByPriority(SortByPriority(SubSeq(s, 1, Len(s) - 1)), s[Len(s)])

\* if (priority) internal.manual++
ManualAfterSubscribe(m, priority) == IF priority # 0 THEN m + 1 ELSE m

\* a removal of the first entry of the ref only
FilterFirstRef(s, ref) ==
  LET at == {i \in DOMAIN s : s[i].ref = ref}
  IN IF at = {} THEN s
     ELSE LET k == CHOOSE i \in at : \A x \in at : i <= x
          IN SubSeq(s, 1, k - 1) \o SubSeq(s, k + 1, Len(s))

\* internal.subscribers.filter((s) => s.ref !== ref)
FilterRef(s, ref) == SelectSeq(s, LAMBDA e : e.ref # ref)

\* the handle returned by subscribe(ref, priority), run on a registry whose
\* counter is m and whose array holds s; the guard internal?.subscribers is
\* true of every array
unsubscribe(m, s, h) ==
  [manual |-> IF h.priority # 0 THEN m - 1 ELSE m,
   subscribers |-> FilterRef(s, h.ref)]

\* the identity of a newly allocated array: the least one not in use
NewArray(live) == CHOOSE a \in ArrayIds \ live : \A b \in ArrayIds \ live : a <= b

(***************************************************************************)
(* The performance governor.                                               *)
(***************************************************************************)
\* a regress that does not clear the pending timeout
ClearTimeoutNothing(ts, id) == ts

\* clearTimeout(id): nothing happens for undefined or for a timeout that fired
ClearTimeout(ts, id) == ts \ {id}

\* a set that loses the new value of current
setPerformanceCurrentStale(perf, current) == perf

\* set((state) => ({ performance: { ...state.performance, current } }))
setPerformanceCurrent(perf, current) == [perf EXCEPT !.current = current]

(***************************************************************************)
(* Construction options (props of createMockStore).  An absent option is   *)
(* the empty sequence, a given one a one-element sequence; a partial       *)
(* performance override is a record of the fields it gives.                *)
(***************************************************************************)
Widths == {Num(0), Num(200)}

Heights == {Num(0), Num(100)}

PixelRatios ==
  {Scalar(Num(1)), Scalar(Num(2)), Pair(Num(1), Num(2)), Pair(Num(2), Num(1)),
   Pair(Num(4), Num(1))}

DevicePixelRatios == {Num(1), Num(3)}

PerformanceOverrides ==
  { [k \in {} |-> Num(0)],
    [min |-> Rat(1, 4)],
    [max |-> Rat(3, 4)],
    [max |-> Num(2)],
    [min |-> Rat(1, 4), max |-> Rat(3, 4)],
    [debounce |-> 50] }

DefaultProps ==
  [size |-> <<>>, orthographic |-> FALSE, updateCamera |-> TRUE,
   pixelRatio |-> Scalar(Num(1)), performance |-> [k \in {} |-> Num(0)],
   camera |-> <<>>]

\* the performance literal of lines 154-159, before ...performance
DefaultPerformance ==
  [current |-> Num(1), min |-> Rat(1, 2), max |-> Num(1), debounce |-> 200]

\* { ...defaults, ...override }
Spread(defaults, override) ==
  [k \in DOMAIN defaults |-> IF k \in DOMAIN override THEN override[k] ELSE defaults[k]]

\* lines 85-90: the camera given, or a default one of the kind asked for
ConstructedCamera(props) ==
  IF props.camera # <<>> THEN props.camera[1]
  ELSE IF props.orthographic THEN "defaultOrthographic" ELSE "defaultPerspective"

\* the viewport literal of lines 173-182
InitialViewport(initialPixelRatio) ==
  [initialPixelRatio |-> initialPixelRatio, pixelRatio |-> initialPixelRatio,
   width |-> Num(0), height |-> Num(0), aspect |-> Num(0), distance |-> Num(0),
   factor |-> Num(0)]

\* the camera named by the identifier camera in setSize's body (line 190):
\* the const of line 86, not state.camera
SetSizeCamera(ctor, current) == ctor

\* a setSize that publishes the size and the viewport in two set calls: the
\* listener runs on the first, with the new size and the previous viewport
setSizeTorn(vp, cs, ctor, current, upd, slice, sref, width, height) ==
  LET sz == [width |-> width, height |-> height]
      nvp == MergeViewport(vp, getCurrentViewport(cs[ctor], sz))
      pub == Publish(slice, cs, upd, current, sz, sref + 1, vp)
  IN [size |-> sz, sizeRef |-> sref + 1, viewport |-> nvp, cams |-> pub.cams,
      slice |-> pub.slice, reactor |-> pub.reactor, saw |-> pub.saw]

\* setSize(width, height) on a store whose viewport is vp, whose camera objects
\* are cs, built with camera ctor and holding camera current: the values of the
\* store once set has returned (the listener included)
setSize(vp, cs, ctor, current, upd, slice, sref, width, height) ==
  LET sz == [width |-> width, height |-> height]
      nvp == MergeViewport(vp, getCurrentViewport(cs[SetSizeCamera(ctor, current)], sz))
      pub == Publish(slice, cs, upd, current, sz, sref + 1, nvp)
  IN [size |-> sz, sizeRef |-> sref + 1, viewport |-> nvp, cams |-> pub.cams,
      slice |-> pub.slice, reactor |-> pub.reactor, saw |-> pub.saw]

\* set({ camera })
setCamera(current, c) == c

\* a setPixelRatio that writes the initial pixel ratio as well
ViewportWithPixelRatioInitial(vp, pixelRatio, dpr) ==
  [vp EXCEPT !.pixelRatio = setPixelRatio(pixelRatio, dpr),
             !.initialPixelRatio = setPixelRatio(pixelRatio, dpr)]

\* set((state) => ({ viewport: { ...state.viewport, pixelRatio: setPixelRatio(pixelRatio) } }))
ViewportWithPixelRatio(vp, pixelRatio, dpr) ==
  [vp EXCEPT !.pixelRatio = setPixelRatio(pixelRatio, dpr)]

(***************************************************************************)
(* The state createMockStore returns for props, on a host whose device     *)
(* pixel ratio is dpr.                                                     *)
(***************************************************************************)
Construct(props, dpr) ==
  LET ctor == ConstructedCamera(props)
      vp0 == InitialViewport(setPixelRatio(props.pixelRatio, dpr))
      sized == setSize(vp0, InitialCameras, ctor, ctor, props.updateCamera,
                       Selector(vp0, 0), 0, props.size[1].width, props.size[1].height)
      given == props.size # <<>>
  IN /\ ctorCamera = ctor
     /\ updateCamera = props.updateCamera
     /\ devicePixelRatio = dpr
     /\ camera = ctor
     /\ size = IF given THEN sized.size ELSE [width |-> Num(0), height |-> Num(0)]
     /\ sizeRef = IF given THEN sized.sizeRef ELSE 0
     /\ viewport = IF given THEN sized.viewport ELSE vp0
     /\ cams = IF given THEN sized.cams ELSE InitialCameras
     /\ currentSlice = IF given THEN sized.slice ELSE Selector(vp0, 0)
     /\ reactorSaw = IF given /\ sized.reactor THEN <<sized.saw>> ELSE <<>>
     /\ pixelRatioArg = props.pixelRatio
     /\ performance = Spread(DefaultPerformance, props.performance)
     /\ performanceTimeout = 0
     /\ timers = {}
     /\ nextTimer = 1
     /\ perfLog = <<>>
     /\ manual = 0
     /\ subscribers = 0
     /\ arrays = [a \in ArrayIds |-> <<>>]
     /\ handles = {}
     /\ nSubscribe = 0
     /\ nUnsubscribe = 0
     /\ tickPc = "idle"
     /\ tickArr = {}
     /\ tickIdx = 0
     /\ tickStart = <<>>
     /\ tickInvoked = <<>>
     /\ lastOp = [op |-> "createMockStore", args |-> <<>>, reactor |-> given]

(***************************************************************************)
(* The store's mutation entry points.                                      *)
(***************************************************************************)
SetSize(width, height) ==
  /\ sizeRef < MaxSetSize
  /\ \E r \in {setSize(viewport, cams, ctorCamera, camera, updateCamera,
                      currentSlice, sizeRef, width, height)} :
        /\ size' = r.size
        /\ sizeRef' = r.sizeRef
        /\ viewport' = r.viewport
        /\ cams' = r.cams
        /\ currentSlice' = r.slice
        /\ reactorSaw' = IF r.reactor THEN <<r.saw>> ELSE reactorSaw
        /\ lastOp' = [op |-> "setSize", args |-> <<width, height>>, reactor |-> r.reactor,
                      from |-> size]
  /\ UNCHANGED <<camera, pixelRatioArg, cfgVars, perfVars, regVars, tickVars>>

SetCamera(c) ==
  /\ \E pub \in {Publish(currentSlice, cams, updateCamera, setCamera(camera, c),
                          size, sizeRef, viewport)} :
        /\ camera' = setCamera(camera, c)
        /\ cams' = pub.cams
        /\ currentSlice' = pub.slice
        /\ reactorSaw' = IF pub.reactor THEN <<pub.saw>> ELSE reactorSaw
        /\ lastOp' = [op |-> "setCamera", args |-> <<c>>, reactor |-> pub.reactor]
  /\ UNCHANGED <<size, sizeRef, viewport, pixelRatioArg, cfgVars, perfVars, regVars, tickVars>>

SetPixelRatio(pixelRatio) ==
  /\ \E vp \in {ViewportWithPixelRatio(viewport, pixelRatio, devicePixelRatio)} :
     \E pub \in {Publish(currentSlice, cams, updateCamera, camera, size, sizeRef, vp)} :
        /\ viewport' = vp
        /\ cams' = pub.cams
        /\ currentSlice' = pub.slice
        /\ reactorSaw' = IF pub.reactor THEN <<pub.saw>> ELSE reactorSaw
        /\ lastOp' = [op |-> "setPixelRatio", args |-> <<pixelRatio>>, reactor |-> pub.reactor]
  /\ pixelRatioArg' = pixelRatio
  /\ UNCHANGED <<camera, size, sizeRef, cfgVars, perfVars, regVars, tickVars>>

(***************************************************************************)
(* performance.regress() and the recovery it schedules.  Time is not       *)
(* modelled: a scheduled timeout may fire at any later moment.             *)
(***************************************************************************)
\* a regress that leaves a pending recovery in place instead of replacing it
RegressKeepsTimer ==
  /\ nextTimer <= MaxRegress
  /\ performance' = setPerformanceCurrent(performance, performance.min)
  /\ timers' = IF timers = {} THEN {nextTimer} ELSE timers
  /\ performanceTimeout' = IF timers = {} THEN nextTimer ELSE performanceTimeout
  /\ nextTimer' = nextTimer + 1
  /\ perfLog' = Append(perfLog, [ev |-> "regress", id |-> nextTimer])
  /\ lastOp' = [op |-> "regress", args |-> <<>>, reactor |-> FALSE]
  /\ UNCHANGED <<storeVars, cfgVars, regVars, tickVars>>

Regress ==
  /\ nextTimer <= MaxRegress
  /\ LET cleared == ClearTimeout(timers, performanceTimeout)
         perf == setPerformanceCurrent(performance, performance.min)
         pub == Publish(currentSlice, cams, updateCamera, camera, size, sizeRef, viewport)
     IN /\ performance' = perf
        /\ timers' = cleared \cup {nextTimer}
        /\ performanceTimeout' = nextTimer
        /\ nextTimer' = nextTimer + 1
        /\ perfLog' = Append(perfLog, [ev |-> "regress", id |-> nextTimer])
        /\ cams' = pub.cams
        /\ currentSlice' = pub.slice
        /\ reactorSaw' = IF pub.reactor THEN <<pub.saw>> ELSE reactorSaw
        /\ lastOp' = [op |-> "regress", args |-> <<>>, reactor |-> pub.reactor]
  /\ UNCHANGED <<camera, size, sizeRef, viewport, pixelRatioArg, cfgVars, regVars, tickVars>>

\* the callback of line 166, run by the host for the scheduled timeout id
TimerFire(id) ==
  /\ id \in timers
  /\ LET perf == setPerformanceCurrent(performance, performance.max)
         pub == Publish(currentSlice, cams, updateCamera, camera, size, sizeRef, viewport)
     IN /\ performance' = perf
        /\ timers' = timers \ {id}
        /\ perfLog' = Append(perfLog, [ev |-> "recover", id |-> id])
        /\ cams' = pub.cams
        /\ currentSlice' = pub.slice
        /\ reactorSaw' = IF pub.reactor THEN <<pub.saw>> ELSE reactorSaw
        /\ lastOp' = [op |-> "timer", args |-> <<id>>, reactor |-> pub.reactor]
  /\ UNCHANGED <<performanceTimeout, nextTimer, camera, size, sizeRef, viewport, pixelRatioArg,
                 cfgVars, regVars, tickVars>>

(***************************************************************************)
(* internal.subscribe(ref, priority) and the handles it returns.           *)
(***************************************************************************)
Subscribe(ref, priority) ==
  /\ nSubscribe < MaxSubscribe
  /\ tickPc # "done"
  /\ LET e == [ref |-> ref, priority |-> priority, seq |-> nSubscribe + 1]
     IN /\ manual' = ManualAfterSubscribe(manual, priority)
        /\ arrays' = [arrays EXCEPT ![subscribers] = SortByPriority(Append(@, e))]
        /\ handles' = handles \cup {e}
  /\ nSubscribe' = nSubscribe + 1
  /\ lastOp' = [op |-> "subscribe", args |-> <<ref, priority>>, reactor |-> FALSE]
  /\ UNCHANGED <<subscribers, nUnsubscribe, cfgVars, storeVars, perfVars, tickVars>>

\* a call of the handle h; the array filter returns is a new object
Unsubscribe(h) ==
  /\ nUnsubscribe < MaxUnsubscribe
  /\ tickPc # "done"
  /\ h \in handles
  /\ LET r == unsubscribe(manual, arrays[subscribers], h)
         a == NewArray(tickArr \cup {subscribers})
     IN /\ manual' = r.manual
        /\ subscribers' = a
        /\ arrays' = [x \in ArrayIds |->
                        IF x = a THEN r.subscribers
                        ELSE IF x \in tickArr THEN arrays[x] ELSE <<>>]
  /\ nUnsubscribe' = nUnsubscribe + 1
  /\ lastOp' = [op |-> "unsubscribe", args |-> <<h>>, reactor |-> FALSE]
  /\ UNCHANGED <<handles, nSubscribe, cfgVars, storeVars, perfVars, tickVars>>

(***************************************************************************)
(* A render tick of the external loop: it reads internal.subscribers once, *)
(* and calls the entries of that array by index, in order.  While a        *)
(* callback runs ("running") it may subscribe and unsubscribe.             *)
(***************************************************************************)
TickBegin ==
  /\ tickPc = "idle"
  /\ LET arr == arrays[subscribers]
     IN /\ tickStart' = arr
        /\ IF arr = <<>>
           THEN /\ tickPc' = "done"
                /\ tickArr' = {}
                /\ tickIdx' = 0
                /\ tickInvoked' = <<>>
           ELSE /\ tickPc' = "running"
                /\ tickArr' = {subscribers}
                /\ tickIdx' = 1
                /\ tickInvoked' = <<arr[1]>>
  /\ lastOp' = [op |-> "tick", args |-> <<>>, reactor |-> FALSE]
  /\ UNCHANGED <<cfgVars, storeVars, perfVars, regVars>>

\* the running callback returns: the loop goes on to the next index, or ends
TickReturn ==
  /\ tickPc = "running"
  /\ LET arr == arrays[CHOOSE a \in tickArr : TRUE]
     IN IF tickIdx + 1 <= Len(arr)
        THEN /\ tickIdx' = tickIdx + 1
             /\ tickInvoked' = Append(tickInvoked, arr[tickIdx + 1])
             /\ UNCHANGED <<tickPc, tickArr, arrays>>
        ELSE /\ tickPc' = "done"
             /\ tickArr' = {}
             /\ tickIdx' = 0
             /\ arrays' = [x \in ArrayIds |-> IF x = subscribers THEN arrays[x] ELSE <<>>]
             /\ UNCHANGED tickInvoked
  /\ lastOp' = [op |-> "tick", args |-> <<>>, reactor |-> FALSE]
  /\ UNCHANGED <<tickStart, manual, subscribers, handles, nSubscribe, nUnsubscribe,
                 cfgVars, storeVars, perfVars>>

\* the loop has returned
TickEnd ==
  /\ tickPc = "done"
  /\ tickPc' = "idle"
  /\ tickStart' = <<>>
  /\ tickInvoked' = <<>>
  /\ lastOp' = [op |-> "tick", args |-> <<>>, reactor |-> FALSE]
  /\ UNCHANGED <<tickArr, tickIdx, cfgVars, storeVars, perfVars, regVars>>

(***************************************************************************)
(* Specifications.                                                         *)
(***************************************************************************)
\* the registry of a store built with the default options
InitRegistry == Construct(DefaultProps, Num(1))

NextRegistry ==
  \/ \E ref \in Refs, priority \in Priorities : Subscribe(ref, priority)
  \/ \E h \in handles : Unsubscribe(h)

SpecRegistry == InitRegistry /\ [][NextRegistry]_vars

\* the registry while the external loop runs ticks
TickPriorities == {0, 1}

NextTick ==
  \/ \E ref \in Refs, priority \in TickPriorities : Subscribe(ref, priority)
  \/ \E h \in handles : Unsubscribe(h)
  \/ TickBegin
  \/ TickReturn
  \/ TickEnd

SpecTick == InitRegistry /\ [][NextTick]_vars

\* the performance governor of a store built with any performance override
InitPerformance ==
  \E o \in PerformanceOverrides :
    Construct([DefaultProps EXCEPT !.performance = o], Num(1))

NextPerformance ==
  \/ Regress
  \/ \E id \in timers : TimerFire(id)

SpecPerformance == InitPerformance /\ [][NextPerformance]_vars

\* the same, on a host whose event loop runs the callback of a timeout that
\* stays scheduled
SpecPerformanceFair == SpecPerformance /\ WF_vars(\E id \in timers : TimerFire(id))

\* the store built with any size, camera, updateCamera and pixelRatio options
StoreProps ==
  { [DefaultProps EXCEPT !.size = s, !.orthographic = o, !.updateCamera = u,
                         !.pixelRatio = p, !.camera = c] :
      s \in {<<>>, <<[width |-> Num(200), height |-> Num(100)]>>},
      o \in BOOLEAN, u \in BOOLEAN,
      p \in {Scalar(Num(1)), Pair(Num(1), Num(2))},
      c \in {<<>>} \cup {<<x>> : x \in UserCameras} }

InitStore == \E props \in StoreProps, dpr \in DevicePixelRatios : Construct(props, dpr)

NextStore ==
  \/ \E w \in Widths, h \in Heights : SetSize(w, h)
  \/ \E c \in UserCameras \cup {ctorCamera} : SetCamera(c)
  \/ \E p \in PixelRatios : SetPixelRatio(p)

SpecStore == InitStore /\ [][NextStore]_vars

\* the whole store: every operation, on a store built with a default camera
\* and no size, and with few inputs to each operation
MixedProps ==
  { [DefaultProps EXCEPT !.orthographic = o, !.updateCamera = u,
                         !.pixelRatio = Pair(Num(1), Num(2))] :
      o \in BOOLEAN, u \in BOOLEAN }

MixedHeights == {Num(0), Num(100)}

MixedPixelRatios == {Scalar(Num(2)), Pair(Num(4), Num(1))}

Init == \E props \in MixedProps, dpr \in DevicePixelRatios : Construct(props, dpr)

Next ==
  \/ \E h \in MixedHeights : SetSize(Num(200), h)
  \/ \E c \in {"userOrthographic", ctorCamera} : SetCamera(c)
  \/ \E p \in MixedPixelRatios : SetPixelRatio(p)
  \/ nextTimer <= MaxMixed /\ Regress
  \/ \E id \in timers : TimerFire(id)
  \/ nSubscribe < MaxMixed /\ Subscribe("r1", 1)
  \/ \E h \in handles : nUnsubscribe < MaxMixed /\ Unsubscribe(h)

Spec == Init /\ [][Next]_vars

(***************************************************************************)
(* Properties of the registry.                                             *)
(***************************************************************************)
\* the entries of the array internal.subscribers refers to
Entries == arrays[subscribers]

\* C1: for every handle returned by internal.subscribe, invoking it twice
\* leaves the subscribers sequence and the manual counter as invoking it once
\* does: the second call is a no-op.
C1_UnsubscribeIdempotent ==
  \A h \in handles :
    LET once == unsubscribe(manual, Entries, h)
    IN unsubscribe(once.manual, once.subscribers, h) = once

\* C2: internal.manual is the number of entries of internal.subscribers whose
\* priority is nonzero.
C2_ManualCountsNonzeroPriorities ==
  manual = Cardinality({i \in 1..Len(Entries) : Entries[i].priority # 0})

\* C3: internal.manual is never negative.
C3_ManualNeverNegative == manual >= 0

\* C4: internal.subscribers is sorted ascending by priority, and entries of
\* equal priority stand in the order of their registration.
C4_SortedByPriorityStable ==
  \A i, j \in 1..Len(Entries) :
    i < j =>
      /\ Entries[i].priority <= Entries[j].priority
      /\ Entries[i].priority = Entries[j].priority => Entries[i].seq < Entries[j].seq

\* a registry holding two entries of one priority, and an entry sorted before
\* one that was registered earlier
C4_Witness ==
  /\ \E i, j \in 1..Len(Entries) :
       i < j /\ Entries[i].priority = Entries[j].priority
  /\ \E i, j \in 1..Len(Entries) :
       i < j /\ Entries[i].priority < Entries[j].priority /\ Entries[i].seq > Entries[j].seq

\* C5: a tick iterates the array it read at its start; whatever subscribe and
\* unsubscribe calls its callbacks make, when the tick is over every entry
\* registered at its start was invoked exactly once, none skipped and none
\* invoked twice.
C5_TickInvokesEachEntryOnce ==
  tickPc = "done" =>
    \A i \in 1..Len(tickStart) :
      Cardinality({j \in 1..Len(tickInvoked) : tickInvoked[j] = tickStart[i]}) = 1

(***************************************************************************)
(* Properties of setSize.                                                  *)
(***************************************************************************)
\* the geometry fields of viewport vp are those getCurrentViewport computes
\* from camera object cam and size sz
GeometryOf(vp, cam, sz) ==
  LET g == getCurrentViewport(cam, sz)
  IN /\ vp.width = g.width
     /\ vp.height = g.height
     /\ vp.factor = g.factor
     /\ vp.aspect = g.aspect

\* C6: the viewport setSize computes is the one of the camera the store holds
\* at the time of the call.
C6_SetSizeUsesCurrentCamera ==
  lastOp.op = "setSize" =>
    /\ GeometryOf(viewport, cams[camera], size)
    /\ viewport.distance = cams[camera].distance

\* viewport vp holds the geometry of size sz for some camera
Matches(vp, sz) == \E c \in CameraIds : GeometryOf(vp, cams[c], sz)

Placeholder(vp, sz) ==
  /\ sz = [width |-> Num(0), height |-> Num(0)]
  /\ vp.width = Num(0)
  /\ vp.height = Num(0)
  /\ vp.aspect = Num(0)
  /\ vp.factor = Num(0)

C8_PerformanceWithinBounds ==
  /\ Leq(performance.min, performance.current)
  /\ Leq(performance.current, performance.max)

\* the positions of perfLog holding a regress call / a recovery
RegressAt(i) == perfLog[i].ev = "regress"

RecoverAt(i) == perfLog[i].ev = "recover"

\* C9: at most one recovery timer is outstanding, the one the latest regress
\* scheduled, and the callback of a timer a later regress cancelled never runs.
C9_AtMostOneTimer ==
  /\ Cardinality(timers) <= 1
  /\ timers \subseteq {performanceTimeout}
  /\ \A i, j, k \in 1..Len(perfLog) :
       i < j /\ j < k /\ RegressAt(i) /\ RegressAt(j) /\ RecoverAt(k)
         /\ (\A m \in (i + 1)..(j - 1) : ~RecoverAt(m))
       => perfLog[k].id # perfLog[i].id

\* a second regress made while the first one's timer was pending
C9_Witness ==
  /\ Len(perfLog) >= 2
  /\ RegressAt(1)
  /\ RegressAt(2)
  /\ timers = {perfLog[2].id}
  /\ lastOp.op = "regress"

\* every recovery directly follows the regress call that scheduled it, and
\* performance.current is performance.min while the latest event is a regress
RecoveriesFollowTheirRegress ==
  /\ \A k \in 1..Len(perfLog) :
       RecoverAt(k) =>
         /\ k > 1
         /\ RegressAt(k - 1)
         /\ perfLog[k - 1].id = perfLog[k].id
  /\ (perfLog # <<>> /\ RegressAt(Len(perfLog))) => performance.current = performance.min

\* the timer scheduled by the regress call numbered id has run its recovery
Recovered(id) == \E k \in 1..Len(perfLog) : RecoverAt(k) /\ perfLog[k].id = id

\* a regress call later than the one numbered id has been made
Superseded(id) == \E k \in 1..Len(perfLog) : RegressAt(k) /\ perfLog[k].id > id

\* C10: a regress followed by another before its recovery fired is followed by
\* one recovery only, that of the later call, and performance.current is
\* performance.min from the first call until that recovery; the recovery of
\* the latest call does occur unless yet another regress supersedes it.
C10_RegressDebounced ==
  /\ []RecoveriesFollowTheirRegress
  /\ \A id \in 1..MaxRegress : (timers = {id}) ~> (Recovered(id) \/ Superseded(id))

\* two regress calls in a row, then the one recovery, scheduled by the second
C10_Witness ==
  /\ Len(perfLog) = 3
  /\ RegressAt(1)
  /\ RegressAt(2)
  /\ RecoverAt(3)
  /\ perfLog[3].id = perfLog[2].id
  /\ timers = {}
  /\ performance.current = performance.max

\* the latest event of the performance log is the recovery of a regress
LastRecovered == perfLog # <<>> /\ RecoverAt(Len(perfLog))

\* performance.current is performance.max and no recovery is pending
Stable == performance.current = performance.max /\ timers = {}

\* C11: regress sets performance.current to performance.min in its own step
\* and leaves its recovery pending; unless a later regress is made, the timer
\* eventually fires and leaves current at performance.max with nothing
\* pending, which lasts until the next regress.
C11_RegressThenRecovery ==
  /\ [](lastOp.op = "regress" =>
         /\ performance.current = performance.min
         /\ timers = {performanceTimeout})
  /\ [](LastRecovered => Stable)
  /\ \A id \in 1..MaxRegress :
       (lastOp.op = "regress" /\ performanceTimeout = id)
         ~> (Stable \/ performanceTimeout > id)

\* one regress and its recovery, which took current from min back up to max
C11_Witness ==
  /\ Len(perfLog) = 2
  /\ RegressAt(1)
  /\ LastRecovered
  /\ Stable
  /\ performance.min # performance.max
  /\ lastOp.op = "timer"

\* C12: a setCamera(c) step makes c the store's camera and changes nothing
\* else: size, viewport, performance and its timer, the subscriber registry
\* and every camera object are as before, and the reactor is not invoked.
C12_SetCameraOnlyCamera ==
  [][lastOp'.op = "setCamera" =>
       /\ camera' = lastOp'.args[1]
       /\ ~lastOp'.reactor
       /\ cams' = cams
       /\ size' = size /\ sizeRef' = sizeRef
       /\ viewport' = viewport
       /\ performance' = performance /\ timers' = timers
       /\ manual' = manual /\ subscribers' = subscribers /\ arrays' = arrays]_vars

\* setCamera has replaced the camera of a sized store that updates cameras,
\* with a recovery pending and a subscriber registered
C12_Witness ==
  /\ lastOp.op = "setCamera"
  /\ camera # ctorCamera
  /\ camera = lastOp.args[1]
  /\ updateCamera
  /\ sizeRef > 0
  /\ timers # {}
  /\ Len(Entries) > 0

\* the clamping rule, by cases: a scalar is kept; of a pair <<a, b>> on a host
\* of device pixel ratio e, the smaller of a and e, raised to b if below it
Clamped(pixelRatio, e) ==
  IF pixelRatio.isArray
  THEN LET a == pixelRatio.v[1]
           b == pixelRatio.v[2]
           m == IF Leq(a, e) THEN a ELSE e
       IN IF Leq(m, b) THEN b ELSE m
  ELSE pixelRatio.v[1]

\* C13: in every state viewport.pixelRatio is the clamping rule applied to the
\* argument of the latest setPixelRatio (to the pixelRatio option before the
\* first), and no step, setSize included, changes viewport.initialPixelRatio.
C13_PixelRatioIsClampOfLatest ==
  /\ [](viewport.pixelRatio = Clamped(pixelRatioArg, devicePixelRatio))
  /\ [][viewport'.initialPixelRatio = viewport.initialPixelRatio]_vars

\* setSize has rewritten the viewport after a setPixelRatio that moved the
\* pixel ratio away from the initial one
C13_Witness ==
  /\ lastOp.op = "setSize"
  /\ pixelRatioArg = Pair(Num(4), Num(1))
  /\ devicePixelRatio = Num(3)
  /\ viewport.pixelRatio = Num(3)
  /\ viewport.initialPixelRatio = Num(2)

\* C14: a setPixelRatio step leaves size, the camera reference, performance,
\* the subscribers and the manual counter as they were, and of the viewport
\* it leaves width, height, aspect, distance, factor and initialPixelRatio.
C14_SetPixelRatioOnlyPixelRatio ==
  [][lastOp'.op = "setPixelRatio" =>
       /\ size' = size /\ sizeRef' = sizeRef
       /\ camera' = camera
       /\ performance' = performance
       /\ subscribers' = subscribers /\ arrays' = arrays
       /\ manual' = manual
       /\ viewport'.width = viewport.width
       /\ viewport'.height = viewport.height
       /\ viewport'.aspect = viewport.aspect
       /\ viewport'.distance = viewport.distance
       /\ viewport'.factor = viewport.factor
       /\ viewport'.initialPixelRatio = viewport.initialPixelRatio]_vars

\* setPixelRatio has changed the pixel ratio of a sized store, with a
\* regressed performance and a subscriber in place
C14_Witness ==
  /\ lastOp.op = "setPixelRatio"
  /\ lastOp.reactor
  /\ viewport.pixelRatio # viewport.initialPixelRatio
  /\ sizeRef > 0
  /\ performance.current = performance.min
  /\ manual > 0

\* r is the larger of x and y
IsMaxOf(r, x, y) == r \in {x, y} /\ Leq(x, r) /\ Leq(y, r)

\* r is the smaller of x and y
IsMinOf(r, x, y) == r \in {x, y} /\ Leq(r, x) /\ Leq(r, y)

\* C15: after setPixelRatio with a scalar the pixel ratio is that scalar; with
\* a pair <<a, b>> on a host of device pixel ratio e it is max(min(a, e), b);
\* the pair <<1, 2>> with e = 3 gives 2.
C15_ClampRule ==
  lastOp.op = "setPixelRatio" =>
    LET arg == lastOp.args[1]
        r == viewport.pixelRatio
    IN /\ ~arg.isArray => r = arg.v[1]
       /\ arg.isArray =>
            \E m \in {arg.v[1], devicePixelRatio} :
               /\ IsMinOf(m, arg.v[1], devicePixelRatio)
               /\ IsMaxOf(r, m, arg.v[2])
       /\ (arg = Pair(Num(1), Num(2)) /\ devicePixelRatio = Num(3)) => r = Num(2)

\* setPixelRatio([1, 2]) on a host of device pixel ratio 3 gave 2
C15_Witness ==
  /\ lastOp.op = "setPixelRatio"
  /\ lastOp.args[1] = Pair(Num(1), Num(2))
  /\ devicePixelRatio = Num(3)
  /\ viewport.pixelRatio = Num(2)
  /\ viewport.initialPixelRatio = Num(1)

\* half of x, and the opposite of x
Half(x) == Mul(x, Rat(1, 2))

Neg(x) == [n |-> 0 - x.n, d |-> x.d]

\* C16: in a store built with updateCamera disabled no camera object is ever
\* written; in one built with it enabled, after setSize(w, h) the camera the
\* store holds has aspect w/h if it is perspective, and left -w/2, right w/2,
\* top h/2, bottom -h/2 if it is orthographic.
C16_UpdateCameraGate ==
  /\ ~updateCamera => cams = InitialCameras
  /\ (updateCamera /\ lastOp.op = "setSize") =>
       LET w == lastOp.args[1]
           h == lastOp.args[2]
           cam == cams[camera]
       IN IF cam.orthographic
          THEN /\ cam.left = Neg(Half(w))
               /\ cam.right = Half(w)
               /\ cam.top = Half(h)
               /\ cam.bottom = Neg(Half(h))
          ELSE cam.aspect = Div(w, h)

\* setSize(200, 100) on a store that updates cameras and holds the caller's
\* orthographic camera, set by setCamera after a change of pixel ratio and
\* during a regress
C16_Witness ==
  /\ updateCamera
  /\ lastOp.op = "setSize"
  /\ lastOp.args = <<Num(200), Num(100)>>
  /\ camera = "userOrthographic"
  /\ cams[camera].left = Num(-100)
  /\ cams[camera].top = Num(50)
  /\ viewport.pixelRatio # viewport.initialPixelRatio
  /\ perfLog # <<>>

\* C17 as stated: a step invokes the reactor exactly when it changes
\* viewport.pixelRatio or the width or height of size.
C17_ReactorIffValueChanged ==
  [][lastOp'.reactor <=>
       (viewport'.pixelRatio # viewport.pixelRatio \/ size' # size)]_vars

\* C17: a step invokes the reactor exactly when it changes viewport.pixelRatio
\* or replaces the size object, which every setSize does, whatever its
\* arguments; regress, the timer, setCamera, subscribe, unsubscribe and a
\* setPixelRatio to the current ratio do not invoke it.
C17_ReactorIffSliceChanged ==
  [][/\ lastOp'.reactor <=>
          (viewport'.pixelRatio # viewport.pixelRatio \/ sizeRef' # sizeRef)
     /\ lastOp'.op = "setSize" => lastOp'.reactor
     /\ lastOp'.op \in {"regress", "timer", "setCamera", "subscribe", "unsubscribe"}
          => ~lastOp'.reactor
     /\ (lastOp'.op = "setPixelRatio" /\ viewport'.pixelRatio = viewport.pixelRatio)
          => ~lastOp'.reactor]_vars

\* setSize with the width and height the store already held ran the reactor
C17_Witness ==
  /\ lastOp.op = "setSize"
  /\ lastOp.from = size
  /\ size = [width |-> Num(200), height |-> Num(100)]
  /\ lastOp.reactor

\* x is a positive number
Positive(x) == Leq(Num(0), x) /\ x # Num(0)

\* C18: after setSize(width, height) with positive width and height on a
\* store holding an orthographic camera of zoom z, viewport.width is
\* width / z, viewport.height is height / z, viewport.factor is 1 and
\* viewport.aspect is width / height.
C18_OrthographicViewport ==
  (/\ lastOp.op = "setSize"
   /\ cams[camera].orthographic
   /\ Positive(lastOp.args[1])
   /\ Positive(lastOp.args[2])
   /\ Positive(cams[camera].zoom)) =>
    LET w == lastOp.args[1]
        h == lastOp.args[2]
        z == cams[camera].zoom
    IN /\ viewport.width = Div(w, z)
       /\ viewport.height = Div(h, z)
       /\ viewport.factor = Num(1)
       /\ viewport.aspect = Div(w, h)

\* C19: in every state whose size has width 0 or height 0, viewport.aspect
\* and viewport.factor are not-a-number, never 0 or an infinity.
C19_ZeroSizeIsNaN ==
  (size.width = Num(0) \/ size.height = Num(0)) =>
    /\ IsNaN(viewport.aspect)
    /\ IsNaN(viewport.factor)

\* C20: a call of the handle returned by subscribe(ref, p) leaves no entry of
\* that ref in internal.subscribers, however many there were, and leaves the
\* entries of every other ref, each once and in their former relative order.
C20_UnsubscribeRemovesByRef ==
  [][lastOp'.op = "unsubscribe" =>
       LET ref == lastOp'.args[1].ref
           pre == arrays[subscribers]
           post == arrays'[subscribers']
           kept == {pre[i] : i \in {x \in DOMAIN pre : pre[x].ref # ref}}
       IN /\ \A i \in DOMAIN post : post[i].ref # ref
          /\ {post[i] : i \in DOMAIN post} = kept
          /\ Len(post) = Cardinality(kept)
          /\ \A i, j \in DOMAIN post :
               i < j => \E k, l \in DOMAIN pre :
                          k < l /\ pre[k] = post[i] /\ pre[l] = post[j]]_vars

\* one call of a handle removed both entries of its ref, registered twice,
\* and left the entry of the other ref
C20_Witness ==
  /\ lastOp.op = "unsubscribe"
  /\ nSubscribe = 3
  /\ nUnsubscribe = 1
  /\ Cardinality({h \in handles : h.ref = lastOp.args[1].ref}) = 2
  /\ Len(Entries) = 1
  /\ Entries[1].ref # lastOp.args[1].ref

====
